---- MODULE Spec2Model ----
(***************************************************************************)
(* Model of Wolfe_role_react.py: a Discord bot that posts role menus       *)
(* (select menus), keeps one RoleMenuRecord per menu in a JSON file and,   *)
(* when a member submits a menu, removes the menu's roles from the member  *)
(* and adds the selected ones.                                             *)
(*                                                                         *)
(* Every handler (create, delete, RolesSelect.callback) is a coroutine:    *)
(* the code between two awaits is one atomic step, and other handlers may  *)
(* run at an await.  A platform call (send, delete a message, add or       *)
(* remove roles) takes effect in the step that resumes the handler.        *)
(***************************************************************************)
EXTENDS Integers, Sequences, FiniteSets, TLC

VARIABLES
    storage,      \* the in-memory registry: key -> RoleMenuRecord
    file,         \* role_menus.json: key -> dict of the record's fields
    posted,       \* ids of the menu messages that exist in the channel
    views,        \* the client's view store: message id -> RolesSelect
    nextId,       \* the id the platform gives the next message
    memberRoles,  \* the role ids the member holds in the bot's guild
    guilds,       \* the guilds the client can resolve (bot.get_guild)
    ready,        \* the client is connected and on_ready has run
    tasks         \* the handlers, one per task slot: running, or returned

vars == <<storage, file, posted, views, nextId, memberRoles, guilds, ready, tasks>>

----------------------------------------------------------------------------
(* Bounds of the model *)

\* message ids handed out by the platform
MaxMsgs == 2

\* Discord's limit of options of a select menu (create, line 219)
MaxOptions == 25

\* Handlers that may run at the same time
Tasks == {1, 2}
\* The guild the bot and the member are in, and another server, which only
\* message links name
BotGuild == 1
OtherGuild == 2
\* No guild: interaction.guild is None
NoGuild == 0
\* Roles are ranked by their id; the bot's top role is TopRole
AllRoles == {1, 2, 3}
TopRole == 3
\* A role id that is mentioned but does not exist
GhostRole == 4
\* The channel the menus are posted in, and a channel id that does not
\* resolve to a text channel
TextChannel == 1
OtherChannel == 2
Title == "menu"
None == -1

\* A message link: the ids that follow "/channels/" at the end of the text.
\* A well-formed link holds three, guild/channel/message.
Links == {<<BotGuild, TextChannel>>, <<OtherGuild, TextChannel, 1>>,
          <<BotGuild, OtherChannel, 1>>}
         \cup {<<BotGuild, TextChannel, m>> : m \in 1..MaxMsgs}

\* A token of the `roles` text: a role mention <@&id> (the id), or a word
\* that is no role mention (Word)
Word == 0

\* A text of n mentions of the assignable roles, 1 2 1 2 ...
LongText(n) == [i \in 1..n |-> 1 + ((i + 1) % 2)]

\* The `roles` texts given to /role_menu create
Texts ==
    {<<Word>>, <<Word, 1, GhostRole>>, <<1, TopRole>>,
     LongText(MaxOptions), LongText(MaxOptions + 1)}

\* The invocations of create: the guild of the interaction (NoGuild: a direct
\* message), the text, and whether the invoker has the manage_roles permission
Invocations ==
    ({BotGuild} \X Texts \X {TRUE})
    \cup {<<BotGuild, LongText(MaxOptions), FALSE>>, <<NoGuild, LongText(MaxOptions), TRUE>>}

\* The invocations of delete: the guild of the interaction, and the link
Deletions == ({BotGuild} \X Links) \cup {<<NoGuild, <<BotGuild, TextChannel, 1>>>>}

\* The texts of the menus the member is given
MenuTexts == {<<1, 2>>}

Range(s) == {s[i] : i \in 1..Len(s)}

\* {}: a dict without keys
EmptyMap == [k \in {} |-> None]

----------------------------------------------------------------------------
(* Storage *)

RoleMenuRecord(g, c, m, t, rids, multi) ==
    [guild_id |-> g, channel_id |-> c, message_id |-> m, title |-> t,
     role_ids |-> rids, multi |-> multi]

\* asdict(v): the record's fields as a JSON object
asdict(v) ==
    [guild_id |-> v.guild_id, channel_id |-> v.channel_id,
     message_id |-> v.message_id, title |-> v.title,
     role_ids |-> v.role_ids, multi |-> v.multi]

load_storage(f) ==
    [k \in DOMAIN f |->
        RoleMenuRecord(f[k].guild_id, f[k].channel_id, f[k].message_id,
                       f[k].title, f[k].role_ids, f[k].multi)]

save_storage(data) == [k \in DOMAIN data |-> asdict(data[k])]

record_key(guild_id, message_id) == <<guild_id, message_id>>

\* storage[key] = rec
Put(data, key, rec) == [k \in DOMAIN data \cup {key} |-> IF k = key THEN rec ELSE data[k]]

\* storage.pop(key, None)
Pop(data, key) == [k \in DOMAIN data \ {key} |-> data[k]]

----------------------------------------------------------------------------
(* Helpers *)

\* ROLE_MENTION_RE.finditer(text): the ids of the role mentions, in order
parse_role_mentions(text) == SelectSeq(text, LAMBDA tok : tok # Word)

\* guild.get_role(rid): the role, or None
get_role(rid) == IF rid \in AllRoles THEN rid ELSE None

\* bot.get_guild(guild_id): the guild, or None
get_guild(guild_id) == IF guild_id \in guilds THEN guild_id ELSE None

\* RolesSelect.__init__: one option per role; max_values is their number
\* when multi, else 1.  The guild is the one the view was built for.
RolesSelect(rs, multi, guild) ==
    [options |-> rs, max_values |-> IF multi THEN Len(rs) ELSE 1, guild |-> guild]

\* RoleMenuView.__init__: a select over the roles of the record that resolve
RoleMenuView(rec, guild) ==
    RolesSelect(SelectSeq(rec.role_ids, LAMBDA rid : get_role(rid) # None),
                rec.multi, guild)

----------------------------------------------------------------------------
(* Handlers *)

Idle ==
    [kind |-> "none", pc |-> "idle", guild |-> NoGuild, link |-> <<>>,
     msg |-> 0, chan |-> 0, role_ids |-> <<>>, resolved |-> <<>>, multi |-> FALSE,
     sel |-> {}, rem |-> {}, add |-> {}, resp |-> 0, calls |-> <<>>,
     out |-> "none"]

\* A handler that returned: how it ended (out), the initial responses it
\* sent (resp), its input and the role calls it made
Returned(self, out) ==
    [Idle EXCEPT !.kind = self.kind, !.pc = "done", !.out = out,
                 !.guild = self.guild, !.link = self.link,
                 !.resp = self.resp, !.msg = self.msg,
                 !.role_ids = self.role_ids, !.sel = self.sel,
                 !.calls = self.calls]

\* Slot t after its handler returned as `ret`, or went on as `ret`.  Only the
\* handler that returned last is kept: an older one leaves its slot.
Slots(t, ret) ==
    [u \in Tasks |->
        IF u = t THEN ret
        ELSE IF ret.pc = "done" /\ tasks[u].pc = "done" THEN Idle
        ELSE tasks[u]]

\* No handler runs in slot t
IsFree(t) == tasks[t].pc \in {"idle", "done"}

\* A new handler runs in the first slot that is free
Free(t) == IsFree(t) /\ \A u \in Tasks : u < t => ~IsFree(u)

\* interaction.guild: the guild of the interaction when the client resolves it
InteractionGuild(g) == IF g \in guilds THEN g ELSE NoGuild

TypeOK ==
    /\ DOMAIN storage \subseteq ({BotGuild} \X (1..MaxMsgs))
    /\ posted \subseteq 1..MaxMsgs
    /\ nextId \in 1..(MaxMsgs + 1)
    /\ guilds \subseteq {BotGuild}
    /\ memberRoles \subseteq AllRoles
    /\ file = save_storage(storage)

Init ==
    /\ storage = EmptyMap
    /\ file = EmptyMap
    /\ posted = {}
    /\ views = EmptyMap
    /\ nextId = 1
    /\ memberRoles = {TopRole}
    /\ guilds = {BotGuild}
    /\ ready = FALSE
    /\ tasks = [t \in Tasks |-> Idle]

----------------------------------------------------------------------------
(* /role_menu create *)

\* A variant whose limit is off by one
CreateCheckOffByOne(ig, perm, role_ids) ==
    IF ig = NoGuild THEN "guild_only"
    ELSE IF ~perm THEN "need_manage_roles"
    ELSE IF role_ids = <<>> THEN "no_mentions"
    ELSE IF Len(role_ids) > MaxOptions + 1 THEN "too_many"
    ELSE IF \E i \in 1..Len(role_ids) :
                get_role(role_ids[i]) # None /\ role_ids[i] >= TopRole
         THEN "too_high"
    ELSE "ok"

\* The checks of create, in the order of the code; "ok" when all pass
CreateCheck(ig, perm, role_ids) ==
    IF ig = NoGuild THEN "guild_only"
    ELSE IF ~perm THEN "need_manage_roles"
    ELSE IF role_ids = <<>> THEN "no_mentions"
    ELSE IF Len(role_ids) > MaxOptions THEN "too_many"
    ELSE IF \E i \in 1..Len(role_ids) :
                get_role(role_ids[i]) # None /\ role_ids[i] >= TopRole
         THEN "too_high"
    ELSE "ok"

\* A variant that keeps every mentioned id
ResolveRolesKeepAll(role_ids) == role_ids

\* resolved_roles: the mentioned roles that exist, in order; the others are
\* skipped
ResolveRoles(role_ids) == SelectSeq(role_ids, LAMBDA rid : get_role(rid) # None)

\* The messages the platform can still hand an id to
SendsLeft ==
    MaxMsgs + 1 - nextId - Cardinality({t \in Tasks : tasks[t].pc = "c_send"})

\* create up to its first await: a rejection (one response, return) or
\* interaction.response.defer
CreateStart(t, g, text, multi, perm) ==
    LET ig == InteractionGuild(g)
        role_ids == parse_role_mentions(text)
        check == CreateCheck(ig, perm, role_ids)
        early == [Idle EXCEPT !.kind = "create", !.guild = ig, !.resp = 1]
        self == [early EXCEPT !.role_ids = role_ids]
    IN  /\ Free(t)
        /\ ready
        /\ IF check # "ok"
           THEN tasks' = Slots(t, Returned(IF check \in {"guild_only", "need_manage_roles"}
                                             THEN early ELSE self, check))
           ELSE /\ SendsLeft > 0
                /\ tasks' = Slots(t,
                      [self EXCEPT !.pc = "c_send", !.chan = TextChannel,
                                   !.resolved = ResolveRoles(role_ids),
                                   !.multi = multi])
        /\ UNCHANGED <<storage, file, posted, views, nextId, memberRoles, guilds, ready>>

\* The key the new record is stored under
CreateKey(rec) == record_key(rec.guild_id, rec.message_id)

\* channel.send(embed, view) returns the message: the view (built before the
\* await, over the resolved roles) is stored for it, the record is put into
\* storage and saved, the link is sent as a followup
CreateSent(t) ==
    LET self == tasks[t]
        view == RolesSelect(self.resolved, self.multi, self.guild)
        rec == RoleMenuRecord(self.guild, self.chan, nextId, Title,
                              self.resolved, self.multi)
    IN  /\ self.pc = "c_send"
        /\ posted' = posted \cup {nextId}
        /\ nextId' = nextId + 1
        /\ views' = Put(views, nextId, view)
        /\ storage' = Put(storage, CreateKey(rec), rec)
        /\ file' = save_storage(storage')
        /\ tasks' = Slots(t, Returned([self EXCEPT !.msg = nextId], "created"))
        /\ UNCHANGED <<memberRoles, guilds, ready>>

\* channel.send raises (the platform refuses the message): the exception
\* leaves the handler
CreateSendFails(t) ==
    /\ tasks[t].pc = "c_send"
    /\ tasks' = Slots(t, Returned(tasks[t], "error"))
    /\ UNCHANGED <<storage, file, posted, views, nextId, memberRoles, guilds, ready>>

----------------------------------------------------------------------------
(* /role_menu delete *)

\* re.search(r"/channels/(\d+)/(\d+)/(\d+)$", message_link): whether the
\* link matches; the groups are its three ids
LinkMatch(link) == Len(link) = 3

\* guild.get_channel(c_id) is a text channel or a thread
IsTextChannel(c_id) == c_id = TextChannel

\* A variant that does not look the key up
DeleteCheckNoLookup(ig, link) ==
    IF ig = NoGuild THEN "guild_only"
    ELSE IF ~LinkMatch(link) THEN "invalid_link"
    ELSE IF link[1] # ig THEN "wrong_server"
    ELSE "ok"

\* The checks of delete, in the order of the code; "ok" when all pass
DeleteCheck(ig, link) ==
    IF ig = NoGuild THEN "guild_only"
    ELSE IF ~LinkMatch(link) THEN "invalid_link"
    ELSE IF link[1] # ig THEN "wrong_server"
    ELSE IF record_key(link[1], link[3]) \notin DOMAIN storage THEN "not_found"
    ELSE "ok"

\* Remove from storage: storage.pop(key, None); save_storage(storage)
Unregister(key) ==
    /\ storage' = Pop(storage, key)
    /\ file' = save_storage(storage')

\* delete up to its first await: a rejection, the removal when the channel
\* does not resolve, or channel.fetch_message
DeleteStart(t, g, link) ==
    LET ig == InteractionGuild(g)
        check == DeleteCheck(ig, link)
        self == [Idle EXCEPT !.kind = "delete", !.guild = ig, !.link = link]
        found == [self EXCEPT !.chan = link[2], !.msg = link[3]]
    IN  /\ Free(t)
        /\ ready
        /\ IF check # "ok"
           THEN /\ tasks' = Slots(t, Returned([self EXCEPT !.resp = 1], check))
                /\ UNCHANGED <<storage, file>>
           ELSE IF IsTextChannel(link[2])
           THEN /\ tasks' = Slots(t, [found EXCEPT !.pc = "d_msg"])
                /\ UNCHANGED <<storage, file>>
           ELSE /\ Unregister(record_key(link[1], link[3]))
                /\ tasks' = Slots(t,
                        Returned([found EXCEPT !.resp = 1], "no_channel"))
        /\ UNCHANGED <<posted, views, nextId, memberRoles, guilds, ready>>

\* fetch_message and msg.delete return, or one raises NotFound: the record
\* is popped, storage saved, "Role menu removed." sent
DeleteMessageGone(t) ==
    LET self == tasks[t]
    IN  /\ self.pc = "d_msg"
        /\ posted' = posted \ {self.msg}
        /\ Unregister(record_key(self.guild, self.msg))
        /\ tasks' = Slots(t,
              Returned([self EXCEPT !.resp = self.resp + 1],
                       IF self.msg \in posted THEN "deleted" ELSE "gone"))
        /\ UNCHANGED <<views, nextId, memberRoles, guilds, ready>>

\* A variant that returns after the Forbidden response
DeleteForbiddenReturns(t) ==
    /\ tasks[t].pc = "d_msg"
    /\ tasks' = Slots(t, Returned([tasks[t] EXCEPT !.resp = tasks[t].resp + 1], "denied"))
    /\ UNCHANGED <<storage, file, posted, views, nextId, memberRoles, guilds, ready>>

\* fetch_message or msg.delete raises Forbidden: "I can't delete that
\* message, ..." is sent (an await) and the handler goes on
DeleteForbidden(t) ==
    /\ tasks[t].pc = "d_msg"
    /\ tasks' = Slots(t, [tasks[t] EXCEPT !.pc = "d_unreg", !.resp = tasks[t].resp + 1])
    /\ UNCHANGED <<storage, file, posted, views, nextId, memberRoles, guilds, ready>>

\* After the Forbidden response: the record is popped, storage saved and
\* interaction.response.send_message called once more
DeleteUnregister(t) ==
    LET self == tasks[t]
    IN  /\ self.pc = "d_unreg"
        /\ Unregister(record_key(self.guild, self.msg))
        /\ tasks' = Slots(t,
              Returned([self EXCEPT !.resp = self.resp + 1], "denied"))
        /\ UNCHANGED <<posted, views, nextId, memberRoles, guilds, ready>>

----------------------------------------------------------------------------
(* RolesSelect.callback *)

\* menu_role_ids: the values of the options
MenuRoleIds(view) == Range(view.options)

\* A variant that spares the selected roles
RolesToRemoveUnselected(current, menu_role_ids, selected_ids) ==
    (current \cap menu_role_ids) \ selected_ids

\* roles_to_remove: the member's roles that are menu roles
RolesToRemove(current, menu_role_ids, selected_ids) == current \cap menu_role_ids

\* roles_to_add: the selected roles that resolve
RolesToAdd(current, selected_ids) ==
    {get_role(rid) : rid \in selected_ids} \ {None}

\* The selections the select menu lets a member submit
Selections(view) ==
    {s \in SUBSET MenuRoleIds(view) : Cardinality(s) <= view.max_values}

\* A role call of the callback, as the platform answered it
Call(op, result) == [op |-> op, result |-> result]

\* The response that ends the callback when no role call was denied
Updated(self) ==
    Returned([self EXCEPT !.resp = self.resp + 1],
             IF self.sel # {} THEN "updated" ELSE "cleared")

\* callback up to its first await: the member lookup, the two role lists and
\* the first call that is due
SelectStart(t, m, sel, found) ==
    LET view == views[m]
        rem == RolesToRemove(memberRoles, MenuRoleIds(view), sel)
        add == RolesToAdd(memberRoles, sel)
        self == [Idle EXCEPT !.kind = "select", !.guild = view.guild, !.msg = m,
                             !.sel = sel]
        lists == [self EXCEPT !.rem = rem, !.add = add]
    IN  /\ Free(t)
        /\ ready
        /\ m \in posted
        /\ view.guild \in guilds
        /\ IF ~found
           THEN tasks' = Slots(t,
                    Returned([self EXCEPT !.resp = 1], "no_member"))
           ELSE IF rem # {}
           THEN tasks' = Slots(t, [lists EXCEPT !.pc = "s_remove"])
           ELSE IF add # {}
           THEN tasks' = Slots(t, [lists EXCEPT !.pc = "s_add"])
           ELSE tasks' = Slots(t, Updated(lists))
        /\ UNCHANGED <<storage, file, posted, views, nextId, memberRoles, guilds, ready>>

\* member.remove_roles(*roles_to_remove) returns
SelectRemoved(t) ==
    LET self == tasks[t]
        after == [self EXCEPT !.calls = Append(self.calls, Call("remove", "ok"))]
    IN  /\ self.pc = "s_remove"
        /\ memberRoles' = memberRoles \ self.rem
        /\ tasks' = Slots(t,
              IF self.add # {} THEN [after EXCEPT !.pc = "s_add"] ELSE Updated(after))
        /\ UNCHANGED <<storage, file, posted, views, nextId, guilds, ready>>

\* member.add_roles(*roles_to_add) returns
SelectAdded(t) ==
    LET self == tasks[t]
        after == [self EXCEPT !.calls = Append(self.calls, Call("add", "ok"))]
    IN  /\ self.pc = "s_add"
        /\ memberRoles' = memberRoles \cup self.add
        /\ tasks' = Slots(t, Updated(after))
        /\ UNCHANGED <<storage, file, posted, views, nextId, guilds, ready>>

\* A variant that goes on to the grant after a denied revoke
SelectForbiddenGoesOn(t) ==
    LET self == tasks[t]
        op == IF self.pc = "s_remove" THEN "remove" ELSE "add"
        after == [self EXCEPT !.calls = Append(self.calls, Call(op, "forbidden")),
                              !.resp = self.resp + 1]
    IN  /\ self.pc \in {"s_remove", "s_add"}
        /\ tasks' = Slots(t, IF self.pc = "s_remove" /\ self.add # {}
                             THEN [after EXCEPT !.pc = "s_add"]
                             ELSE Returned(after, "forbidden"))
        /\ UNCHANGED <<storage, file, posted, views, nextId, memberRoles, guilds, ready>>

\* The role call that is due raises discord.Forbidden: the permission
\* message is sent and the callback returns
SelectForbidden(t) ==
    LET self == tasks[t]
        op == IF self.pc = "s_remove" THEN "remove" ELSE "add"
        after == [self EXCEPT !.calls = Append(self.calls, Call(op, "forbidden")),
                              !.resp = self.resp + 1]
    IN  /\ self.pc \in {"s_remove", "s_add"}
        /\ tasks' = Slots(t, Returned(after, "forbidden"))
        /\ UNCHANGED <<storage, file, posted, views, nextId, memberRoles, guilds, ready>>

----------------------------------------------------------------------------
(* Startup and the platform's own events *)

\* The process starts again: storage = load_storage(), no view is stored and
\* no handler runs
Restart ==
    /\ storage' = load_storage(file)
    /\ views' = EmptyMap
    /\ tasks' = [t \in Tasks |-> Idle]
    /\ ready' = FALSE
    /\ UNCHANGED <<file, posted, nextId, memberRoles, guilds>>

\* The keys of the records on_ready builds a view for
Resolvable == {k \in DOMAIN storage : get_guild(storage[k].guild_id) # None}

\* bot.add_view(view, message_id=...) for the records under the keys `ks`
AddViews(ks) ==
    [m \in DOMAIN views \cup {storage[k].message_id : k \in ks} |->
        IF \E k \in ks : storage[k].message_id = m
        THEN LET k == CHOOSE k \in ks : storage[k].message_id = m
             IN  RoleMenuView(storage[k], get_guild(storage[k].guild_id))
        ELSE views[m]]

\* on_ready: a view for each record whose guild resolves; bot.add_view stores
\* it for the record's message id, or raises, which is swallowed (attached:
\* the keys whose add_view returned)
on_ready(attached) ==
    /\ attached \subseteq Resolvable
    /\ views' = AddViews(attached)
    /\ ready' = TRUE
    /\ UNCHANGED <<storage, file, posted, nextId, memberRoles, guilds, tasks>>

\* The bot is removed from guild g, or g becomes unavailable
GuildRemove(g) ==
    /\ g \in guilds
    /\ guilds' = guilds \ {g}
    /\ UNCHANGED <<storage, file, posted, views, nextId, memberRoles, ready, tasks>>

\* Guild g is joined again, or becomes available
GuildJoin(g) ==
    /\ g \notin guilds
    /\ guilds' = guilds \cup {g}
    /\ UNCHANGED <<storage, file, posted, views, nextId, memberRoles, ready, tasks>>

----------------------------------------------------------------------------

Create ==
    \/ \E t \in Tasks, inv \in Invocations :
          CreateStart(t, inv[1], inv[2], TRUE, inv[3])
    \/ \E t \in Tasks : CreateSent(t)
    \/ \E t \in Tasks : CreateSendFails(t)

CreateMenu ==
    \/ \E t \in Tasks, text \in MenuTexts, multi \in BOOLEAN :
          CreateStart(t, BotGuild, text, multi, TRUE)
    \/ \E t \in Tasks : CreateSent(t)
    \/ \E t \in Tasks : CreateSendFails(t)

Delete ==
    \/ \E t \in Tasks, inv \in Deletions : DeleteStart(t, inv[1], inv[2])
    \/ \E t \in Tasks : DeleteMessageGone(t)
    \/ \E t \in Tasks : DeleteForbidden(t)
    \/ \E t \in Tasks : DeleteUnregister(t)

Select ==
    \/ \E t \in Tasks, m \in DOMAIN views, found \in BOOLEAN :
          \E sel \in Selections(views[m]) : SelectStart(t, m, sel, found)
    \/ \E t \in Tasks : SelectRemoved(t)
    \/ \E t \in Tasks : SelectAdded(t)
    \/ \E t \in Tasks : SelectForbidden(t)

Platform ==
    \/ Restart
    \/ \E attached \in SUBSET DOMAIN storage : on_ready(attached)
    \/ \E g \in {BotGuild} : GuildRemove(g)
    \/ \E g \in {BotGuild} : GuildJoin(g)

\* The commands and the platform's events
NextRegistry == Create \/ Delete \/ Platform

\* The commands in a process that stays up, in a guild that stays available
NextCommands ==
    \/ \E attached \in SUBSET DOMAIN storage : on_ready(attached)
    \/ Create
    \/ Delete

\* The menus and their use
NextSelect ==
    \/ \E attached \in SUBSET DOMAIN storage : on_ready(attached)
    \/ CreateMenu
    \/ Select

Next == Create \/ Delete \/ Select \/ Platform

Spec == Init /\ [][Next]_vars

SpecRegistry == Init /\ [][NextRegistry]_vars

SpecCommands == Init /\ [][NextCommands]_vars

SpecSelect == Init /\ [][NextSelect]_vars

----------------------------------------------------------------------------
(* Properties *)

\* The handler of slot t returns in this step
Returns(t) == tasks'[t] # tasks[t] /\ tasks'[t].pc = "done"

\* The handler of slot t starts in this step
Starts(t) == IsFree(t) /\ tasks'[t] # tasks[t] /\ tasks'[t].kind # "none"

\* The ids of a list that are roles of the guild, in order
Existing(role_ids) == SelectSeq(role_ids, LAMBDA rid : rid \in AllRoles)

\* The role lists of a callback that starts in this step, against `rem` and
\* `add`, what they are claimed to be for the member's current roles
ListsAre(t, rem(_, _, _), add(_, _, _)) ==
    LET self == tasks'[t]
        menu == MenuRoleIds(views[self.msg])
    IN  /\ self.rem = rem(memberRoles, menu, self.sel)
        /\ self.add = add(memberRoles, menu, self.sel)

C1_Revoke(current, menu, selected) == (current \cap menu) \ selected
C1_Grant(current, menu, selected) == selected \ current

\* C1 as claimed: the revoke call gets (current \cap menu) \ selected, the
\* grant call selected \ current, and the two are disjoint.
C1_Original ==
    [][\A t \in Tasks :
          (Starts(t) /\ tasks'[t].pc \in {"s_remove", "s_add"})
          => /\ ListsAre(t, C1_Revoke, C1_Grant)
             /\ tasks'[t].rem \cap tasks'[t].add = {}]_vars

C1_AllHeld(current, menu, selected) == current \cap menu
C1_AllSelected(current, menu, selected) == selected \cap AllRoles

\* C1, amended: the revoke call gets every menu role the member holds,
\* selected or not, the grant call every selected role that resolves, held
\* or not; a call is made only for a non-empty list, and it removes or adds
\* exactly its list.
C1_RolesPassed ==
    [][\A t \in Tasks :
          /\ (Starts(t) /\ tasks'[t].pc \in {"s_remove", "s_add"})
             => /\ ListsAre(t, C1_AllHeld, C1_AllSelected)
                /\ tasks'[t].pc = "s_remove" => tasks'[t].rem # {}
                /\ tasks'[t].pc = "s_add" => tasks'[t].rem = {} /\ tasks'[t].add # {}
          /\ (tasks[t].pc = "s_remove" /\ Len(tasks'[t].calls) > Len(tasks[t].calls)
              /\ tasks'[t].calls[Len(tasks'[t].calls)] = Call("remove", "ok"))
             => memberRoles' = memberRoles \ tasks[t].rem
          /\ (tasks[t].pc = "s_add" /\ Len(tasks'[t].calls) > Len(tasks[t].calls)
              /\ tasks'[t].calls[Len(tasks'[t].calls)] = Call("add", "ok"))
             => memberRoles' = memberRoles \cup tasks[t].add]_vars

\* A role the member held and selected was revoked; its grant is due
C1_Witness ==
    \E t \in Tasks :
        /\ tasks[t].pc = "s_add"
        /\ tasks[t].calls = <<Call("remove", "ok")>>
        /\ tasks[t].rem \cap tasks[t].add # {}

\* The role calls of a callback: a remove is never after an add, and a
\* denied call is the last one, answered by the permission message
C2_Calls ==
    \A t \in Tasks :
        LET c == tasks[t].calls
        IN  /\ \A i, j \in 1..Len(c) : i < j => ~(c[i].op = "add" /\ c[j].op = "remove")
            /\ \A i, j \in 1..Len(c) : i # j => c[i].op # c[j].op
            /\ \A i \in 1..Len(c) :
                  c[i].result = "forbidden"
                  => /\ i = Len(c)
                     /\ tasks[t].pc = "done"
                     /\ tasks[t].out = "forbidden"
                     /\ tasks[t].resp = 1

\* C2: the revoke call is issued before the grant call; a denied call is
\* answered with the permission message, followed by no further role call,
\* and changes no role of the member (no retry, no rollback).
C2_DeniedEnds ==
    /\ []C2_Calls
    /\ [][\A t \in Tasks :
             (tasks[t].pc \in {"s_remove", "s_add"} /\ Returns(t)
              /\ tasks'[t].out = "forbidden")
             => memberRoles' = memberRoles]_vars

\* The revoke was made, the grant denied
C2_Witness ==
    \E t \in Tasks :
        /\ tasks[t].out = "forbidden"
        /\ tasks[t].calls = <<Call("remove", "ok"), Call("add", "forbidden")>>
        /\ memberRoles \cap MenuRoleIds(views[tasks[t].msg]) = {}

\* C3 as claimed: a create that mentions a role id that does not resolve is
\* aborted: it neither sends a message nor stores a record.
C3_Original ==
    \A t \in Tasks :
        (tasks[t].kind = "create"
         /\ \E i \in 1..Len(tasks[t].role_ids) : tasks[t].role_ids[i] \notin AllRoles)
        => /\ tasks[t].pc # "c_send"
           /\ tasks[t].out \notin {"created", "error"}

\* Every rejection of create has its own reason, and the roles of the menu
\* are the mentioned ids that resolve
C3_Reasons ==
    \A t \in Tasks :
        LET self == tasks[t]
        IN  self.kind = "create"
            => /\ self.out = "guild_only" => self.guild = NoGuild
               /\ self.out = "no_mentions" => self.role_ids = <<>>
               /\ self.out = "too_many" => Len(self.role_ids) > MaxOptions
               /\ self.out = "too_high"
                  => \E i \in 1..Len(self.role_ids) :
                        self.role_ids[i] \in AllRoles /\ self.role_ids[i] >= TopRole
               /\ self.pc = "c_send" => self.resolved = Existing(self.role_ids)

\* C3, amended: a mentioned role id that does not resolve is skipped, not
\* rejected: when the other checks pass and the message is sent, the message
\* is posted and a record with exactly the mentioned ids that resolve, in
\* order, is added to the registry and the file.
C3_GhostSkipped ==
    /\ []C3_Reasons
    /\ [][\A t \in Tasks :
             (tasks[t].pc = "c_send" /\ Returns(t) /\ tasks'[t].out = "created")
             => LET k == record_key(tasks[t].guild, nextId)
                IN  /\ nextId \in posted'
                    /\ DOMAIN storage' = DOMAIN storage \cup {k}
                    /\ storage'[k].role_ids = Existing(tasks[t].role_ids)
                    /\ DOMAIN file' = DOMAIN storage'
                    /\ file'[k].role_ids = storage'[k].role_ids]_vars

\* A menu was created from a text that mentions a role id that does not
\* resolve; its record holds the other role
C3_Witness ==
    \E t \in Tasks :
        /\ tasks[t].kind = "create" /\ tasks[t].out = "created"
        /\ \E i \in 1..Len(tasks[t].role_ids) : tasks[t].role_ids[i] = GhostRole
        /\ record_key(BotGuild, tasks[t].msg) \in DOMAIN storage
        /\ storage[record_key(BotGuild, tasks[t].msg)].role_ids = <<1>>
        /\ tasks[t].msg \in posted

\* C4 as claimed: every record of the registry has at most 25 role ids,
\* pairwise distinct, and is stored under the key of its own guild and
\* message id.
C4_Original ==
    \A k \in DOMAIN storage :
        LET rec == storage[k]
        IN  /\ Len(rec.role_ids) <= MaxOptions
            /\ \A i, j \in 1..Len(rec.role_ids) :
                  i # j => rec.role_ids[i] # rec.role_ids[j]
            /\ k = record_key(rec.guild_id, rec.message_id)

\* A create whose mentions are too many, or name a role at or above the
\* bot's top role, has returned with that rejection and one response
C5_Rejected ==
    \A t \in Tasks :
        LET self == tasks[t]
        IN  (self.kind = "create"
             /\ \/ Len(self.role_ids) > MaxOptions
                \/ \E i \in 1..Len(self.role_ids) :
                      self.role_ids[i] \in AllRoles /\ self.role_ids[i] >= TopRole)
            => /\ self.pc = "done"
               /\ self.out \in {"too_many", "too_high"}
               /\ self.resp = 1

\* C5: a create that mentions more than 25 roles, or a role at or above the
\* bot's top role, is rejected in its first step: no message is posted and
\* the registry and the file are as before.
C5_RejectedBeforeSend ==
    /\ []C5_Rejected
    /\ [][\A t \in Tasks :
             (Returns(t) /\ tasks'[t].kind = "create"
              /\ tasks'[t].out \in {"too_many", "too_high"})
             => /\ Starts(t)
                /\ UNCHANGED <<storage, file, posted, nextId, views>>]_vars

\* 26 mentions were rejected while the registry holds a menu
C5_Witness ==
    \E t \in Tasks :
        /\ tasks[t].kind = "create" /\ tasks[t].out = "too_many"
        /\ Len(tasks[t].role_ids) = MaxOptions + 1
        /\ DOMAIN storage # {}
        /\ file = save_storage(storage)

\* The ways a delete that found its record returns
C6_Outcomes == {"deleted", "gone", "denied", "no_channel"}

\* C6: a delete whose link parses, names the invoking guild and a registered
\* key returns with exactly that key removed from the registry and the file
\* and every other record unchanged, whatever became of the message.
C6_KeyRemoved ==
    /\ [](\A t \in Tasks :
             tasks[t].pc \in {"d_msg", "d_unreg"} \/ tasks[t].out \in C6_Outcomes
             => /\ tasks[t].kind = "delete"
                /\ LinkMatch(tasks[t].link)
                /\ tasks[t].link[1] = tasks[t].guild)
    /\ [][\A t \in Tasks :
             /\ (Starts(t) /\ tasks'[t].kind = "delete" /\ tasks'[t].guild # NoGuild
                 /\ LinkMatch(tasks'[t].link) /\ tasks'[t].link[1] = tasks'[t].guild
                 /\ record_key(tasks'[t].link[1], tasks'[t].link[3]) \in DOMAIN storage)
                => tasks'[t].pc = "d_msg" \/ tasks'[t].out = "no_channel"
             /\ (Returns(t) /\ tasks'[t].out \in C6_Outcomes)
                => LET key == record_key(tasks'[t].link[1], tasks'[t].link[3])
                   IN  /\ DOMAIN storage' = DOMAIN storage \ {key}
                       /\ \A k \in DOMAIN storage' : storage'[k] = storage[k]
                       /\ DOMAIN file' = DOMAIN storage'
                       /\ \A k \in DOMAIN file' : file'[k] = asdict(storage[k])]_vars

\* The deletion of the message was denied; the record is gone, another
\* record is still registered
C6_Witness ==
    \E t \in Tasks :
        /\ tasks[t].kind = "delete" /\ tasks[t].out = "denied"
        /\ record_key(tasks[t].link[1], tasks[t].link[3]) \notin DOMAIN storage
        /\ DOMAIN storage # {}
        /\ tasks[t].msg \in posted

\* C7: a delete whose link names another guild, or a key that is not
\* registered, returns in its first step with one response: the registry,
\* the file and the messages are unchanged.
C7_RejectedUntouched ==
    /\ [](\A t \in Tasks :
             (tasks[t].kind = "delete" /\ tasks[t].guild # NoGuild
              /\ LinkMatch(tasks[t].link) /\ tasks[t].link[1] # tasks[t].guild)
             => tasks[t].pc = "done" /\ tasks[t].out = "wrong_server")
    /\ [][\A t \in Tasks :
             /\ (Starts(t) /\ tasks'[t].kind = "delete" /\ tasks'[t].guild # NoGuild
                 /\ LinkMatch(tasks'[t].link) /\ tasks'[t].link[1] = tasks'[t].guild
                 /\ record_key(tasks'[t].link[1], tasks'[t].link[3]) \notin DOMAIN storage)
                => tasks'[t].pc = "done" /\ tasks'[t].out = "not_found"
             /\ (Returns(t) /\ tasks'[t].out \in {"wrong_server", "not_found"})
                => /\ Starts(t)
                   /\ tasks'[t].resp = 1
                   /\ UNCHANGED <<storage, file, posted, views>>]_vars

\* A link to another guild was rejected while the registry holds a menu
C7_Witness ==
    \E t \in Tasks :
        /\ tasks[t].kind = "delete" /\ tasks[t].out = "wrong_server"
        /\ tasks[t].link[1] = OtherGuild
        /\ DOMAIN storage # {}

\* C8 as claimed: on_ready leaves the registry as it is, a view is bound to
\* the message id of every record whose guild resolves, and it binds none
\* for a record whose guild does not resolve.
C8_Original ==
    [][(\E attached \in SUBSET DOMAIN storage : on_ready(attached))
       => /\ storage' = storage
          /\ \A k \in DOMAIN storage :
                LET m == storage[k].message_id
                IN  IF k \in Resolvable
                    THEN m \in DOMAIN views'
                    ELSE m \in DOMAIN views' => m \in DOMAIN views /\ views'[m] = views[m]]_vars

\* C9 as claimed: a handler sends one initial response to its interaction,
\* never a second one.
C9_Original ==
    \A t \in Tasks :
        /\ tasks[t].resp <= 1
        /\ tasks[t].pc = "done" => tasks[t].resp = 1

\* C10 as claimed: when a callback returns without a permission failure,
\* the menu roles the member holds are the selected ones, and the other
\* roles of the member are as before.
C10_Original ==
    [][\A t \in Tasks :
          (Returns(t) /\ tasks'[t].kind = "select"
           /\ tasks'[t].out \in {"updated", "cleared"})
          => LET menu == MenuRoleIds(views[tasks'[t].msg])
             IN  /\ memberRoles' \cap menu = tasks'[t].sel
                 /\ memberRoles' \ menu = memberRoles \ menu]_vars

====
